---- MODULE Spec2Model ----
(***************************************************************************)
(* Model of src/firebase/db.ts (TreeListings): the uploadListing           *)
(* transaction against the Firestore document store, and the read/query/   *)
(* subscribe wrappers.  The store is modelled with the optimistic          *)
(* concurrency of the Firestore client SDK: a transaction records the      *)
(* version of every document it reads, buffers its writes, and commits     *)
(* them in one step when the versions it read are still current.           *)
(*                                                                         *)
(* Pass-through fields with no influence on control flow (datePosted,      *)
(* description) are left out of the listing document.                      *)
(***************************************************************************)
EXTENDS Integers, Sequences, FiniteSets, TLC

\* ---------------------------------------------------------------- bounds

\* Concurrent invocations of uploadListing.
Calls == {"c1", "c2"}

\* Two members of the CategoryType / BikeCategoryType enums.
CategoryType == {"BIKE", "ELEC"}

\* Writes by other clients to an aggregate document (a sale bumping
\* countSoldListings) while the calls run.
MaxExternal == 1

\* runTransaction's default attempt limit.
MaxAttempts == 5

\* Inserts, updates and deletes of listing documents by other clients.
MaxChanges == 3

\* Snapshot events that may wait for their callback at one time.
MaxInflight == 2

\* Listing ids the detail screen may be opened with (0 = no itemId).
MaxItemId == 2

\* User ids, in the order the store sorts them.
UserIds == <<"u1", "u2">>

Null == "null"

Truthy(x) == x \notin {Null, ""}

\* ---------------------------------------------------------------- inputs

BaseInput ==
  [sellerId |-> "u1", title |-> "Bike", price |-> 150, image |-> Null,
   categories |-> <<"BIKE">>, isListingActive |-> TRUE]

\* Category lists without a repeated key, of length 1 and 2.
CatLists ==
  {<<k>> : k \in CategoryType} \cup
  {s \in {<<k1, k2>> : k1 \in CategoryType, k2 \in CategoryType} : s[1] # s[2]}

ValidInputs ==
  {[BaseInput EXCEPT !.image = im, !.categories = cs, !.isListingActive = a] :
     im \in {Null, "file"}, cs \in CatLists, a \in BOOLEAN}

\* One field of the base input made to break a precondition of section 4.1.
InvalidInputs ==
  {[BaseInput EXCEPT !.title = ""], [BaseInput EXCEPT !.price = 0],
   [BaseInput EXCEPT !.categories = <<>>], [BaseInput EXCEPT !.sellerId = ""]}

Inputs == ValidInputs \cup InvalidInputs

SpecPrecondition(in) ==
  in.title # "" /\ in.price > 0 /\ in.categories # <<>> /\ in.sellerId # ""

\* ----------------------------------------------------------------- state

VARIABLES
  listings,      \* the "listings" collection: document id -> data
  categories,    \* the "categories" collection: key -> data (existing only)
  catVersion,    \* update time of each category document, 0 = absent
  nextId,        \* ids handed out so far by doc(collectionRef)
  assets,        \* ids under which an image sits in asset storage
  external,      \* writes made by other clients so far
  pc,            \* position of each uploadListing call
  input,         \* argument of each call
  attempts,      \* runs of the update function of each call
  documentRef,   \* id allocated by the current attempt, 0 = none
  uploadUrl,     \* asset reference of the current attempt, 0 = null
  categoryDocs,  \* per index of categories: "pending" | "exists" | "absent"
  readVersions,  \* transaction's read set: key -> version, -1 = not read
  writes,        \* transaction's buffered mutations
  error,         \* what a failed call rejected with
  result,        \* -1 = not resolved, 0 = resolved with undefined, else an id
  idsAllocated,  \* history: ids allocated by each call
  uploads,       \* history: uploader invocations of each call
  prior,         \* history: categories as they were when the call began
  quiet,         \* history: no other writer committed since the call began
  applied,       \* history: what each call added to each countActiveListings
  sawAbsent,     \* history: keys a call has read as absent in some attempt
  changes,       \* inserts, updates and deletes by other clients so far
  subscribed,    \* the listener: "none" | "active" | "cancelled"
  listenerUser,  \* userId the listener was created with
  emitted,       \* the listener has been sent its first snapshot
  lastEmitted,   \* documents of the snapshot last raised for the listener
  inflight,      \* snapshot events raised and not yet handled, oldest first
  shown,         \* value of the last setListings call
  setListingsCalls, \* number of setListings calls
  fetchedFor,    \* id passed to the last getAllListings call
  fetched,       \* mapping returned by the last getAllListings call
  inflightAt,    \* history: value of changes when each event in flight was raised
  shownAt,       \* history: value of changes when the snapshot shown was raised
  users,         \* the "users" collection: user id -> data (existing only)
  lookupFn,      \* the point lookup last made: "getDocument" | "getUserProfile"
  lookupCause,   \* what the store did for it: "found" | "absent" | "failure"
  lookupOutcome, \* what the caller got: "data" | "null" | "error"
  lastSet,       \* history: the last setDocument call and the document before it
  dMounted,      \* DetailItem is mounted
  dItemId,       \* DetailItem: the itemId parameter, 0 = not provided
  dListing,      \* DetailItem: listing state, <<>> = null, else <<data>>
  dTimeAgo,      \* DetailItem: setTimeAgo has been called
  dUser,         \* DetailItem: user state, 0 = null, else the object's identity
  dListingFetch, \* fetchListing: "idle" | "fetching" | "done" | "threw" | "rejected"
  dListingResult, \* what getDocument gave fetchListing: "data" | "null" | "error"
  dUserFetch,    \* fetchUser: "idle" | "fetching"
  dUserFetchFor, \* sellerId the fetch in flight was started with
  dUserDeps      \* [user, listing] as of the last run of the fetchUser effect

storeVars == <<listings, categories, catVersion, nextId, assets, external>>
callVars == <<pc, input, attempts, documentRef, uploadUrl, categoryDocs,
              readVersions, writes, error, result>>
histVars == <<idsAllocated, uploads, prior, quiet, applied, sawAbsent>>
listenVars == <<changes, subscribed, listenerUser, emitted, lastEmitted,
                inflight, shown, setListingsCalls, fetchedFor, fetched>>
snapVars == <<inflightAt, shownAt>>
lookupVars == <<users, lookupFn, lookupCause, lookupOutcome, lastSet>>
detailVars == <<dMounted, dItemId, dListing, dTimeAgo, dUser, dListingFetch,
                dListingResult, dUserFetch, dUserFetchFor, dUserDeps>>
pageVars == <<lookupVars, detailVars>>
vars == <<storeVars, callVars, histVars, listenVars, snapVars, pageVars>>

InFlight(c) == pc[c] \in {"start", "upload", "read", "commit"}

NoReads == [k \in CategoryType |-> -1]

Init ==
  /\ listings = <<>>
  /\ categories = <<>>
  /\ catVersion = [k \in CategoryType |-> 0]
  /\ nextId = 0
  /\ assets = {}
  /\ external = 0
  /\ pc = [c \in Calls |-> "idle"]
  /\ input = [c \in Calls |-> BaseInput]
  /\ attempts = [c \in Calls |-> 0]
  /\ documentRef = [c \in Calls |-> 0]
  /\ uploadUrl = [c \in Calls |-> 0]
  /\ categoryDocs = [c \in Calls |-> <<>>]
  /\ readVersions = [c \in Calls |-> NoReads]
  /\ writes = [c \in Calls |-> <<>>]
  /\ error = [c \in Calls |-> "none"]
  /\ result = [c \in Calls |-> -1]
  /\ idsAllocated = [c \in Calls |-> {}]
  /\ uploads = [c \in Calls |-> 0]
  /\ prior = [c \in Calls |-> <<>>]
  /\ quiet = [c \in Calls |-> TRUE]
  /\ applied = [c \in Calls |-> [k \in CategoryType |-> 0]]
  /\ sawAbsent = [c \in Calls |-> {}]
  /\ changes = 0
  /\ subscribed = "none"
  /\ listenerUser = Null
  /\ emitted = FALSE
  /\ lastEmitted = <<>>
  /\ inflight = <<>>
  /\ shown = <<>>
  /\ setListingsCalls = 0
  /\ fetchedFor = Null
  /\ fetched = <<>>
  /\ inflightAt = <<>>
  /\ shownAt = 0
  /\ users = <<>>
  /\ lookupFn = "none"
  /\ lookupCause = "none"
  /\ lookupOutcome = "none"
  /\ lastSet = [called |-> FALSE, id |-> Null, data |-> <<>>, merge |-> TRUE,
                before |-> <<>>]
  /\ dMounted = FALSE
  /\ dItemId = 0
  /\ dListing = <<>>
  /\ dTimeAgo = FALSE
  /\ dUser = 0
  /\ dListingFetch = "idle"
  /\ dListingResult = "none"
  /\ dUserFetch = "idle"
  /\ dUserFetchFor = Null
  /\ dUserDeps = <<-1, <<>>>>

\* ------------------------------------------------------------- the store

\* Another writer's commit ends the quiet period of every call begun so far.
Disturb(writer) ==
  [c \in Calls |-> IF c # writer /\ pc[c] # "idle" THEN FALSE ELSE quiet[c]]

\* countActiveListings of aggregate k as a reader sees it, 0 when absent.
Count(cats, k) ==
  IF k \in DOMAIN cats /\ "countActiveListings" \in DOMAIN cats[k]
    THEN cats[k].countActiveListings ELSE 0

\* increment(1) on a field: a missing field counts as 0.
Increment(data, field) ==
  IF field \in DOMAIN data
    THEN [data EXCEPT ![field] = @ + 1]
    ELSE (field :> 1) @@ data

\* A sale recorded by another client: countSoldListings of an existing
\* aggregate goes up and the document gets a new update time.
ExternalSale(k) ==
  /\ external < MaxExternal
  /\ k \in DOMAIN categories
  /\ categories' = [categories EXCEPT ![k] = Increment(@, "countSoldListings")]
  /\ catVersion' = [catVersion EXCEPT ![k] = @ + 1]
  /\ external' = external + 1
  /\ quiet' = Disturb("external")
  /\ UNCHANGED listenVars
  /\ UNCHANGED <<listings, nextId, assets, callVars, idsAllocated, uploads,
                 prior, applied, sawAbsent>>
  /\ UNCHANGED snapVars
  /\ UNCHANGED pageVars

\* ------------------------------------------------------- uploadListing

\* The caller invokes uploadListing(in); runTransaction is entered at once.
Call(c, in) ==
  /\ pc[c] = "idle"
  /\ pc' = [pc EXCEPT ![c] = "start"]
  /\ input' = [input EXCEPT ![c] = in]
  /\ prior' = [prior EXCEPT ![c] = categories]
  /\ quiet' = [quiet EXCEPT ![c] = TRUE]
  /\ UNCHANGED listenVars
  /\ UNCHANGED <<storeVars, attempts, documentRef, uploadUrl, categoryDocs,
                 readVersions, writes, error, result, idsAllocated, uploads,
                 applied, sawAbsent>>
  /\ UNCHANGED snapVars
  /\ UNCHANGED pageVars

\* Variant: every attempt takes the same document id.
BeginAttemptSameId(c) ==
  /\ pc[c] = "start"
  /\ attempts' = [attempts EXCEPT ![c] = @ + 1]
  /\ nextId' = 1
  /\ documentRef' = [documentRef EXCEPT ![c] = 1]
  /\ idsAllocated' = [idsAllocated EXCEPT ![c] = @ \cup {1}]
  /\ uploadUrl' = [uploadUrl EXCEPT ![c] = 0]
  /\ readVersions' = [readVersions EXCEPT ![c] = NoReads]
  /\ writes' = [writes EXCEPT ![c] = <<>>]
  /\ categoryDocs' = [categoryDocs EXCEPT ![c] =
                        [i \in 1..Len(input[c].categories) |-> "pending"]]
  /\ pc' = [pc EXCEPT ![c] = IF Truthy(input[c].image) THEN "upload" ELSE "read"]
  /\ UNCHANGED listenVars
  /\ UNCHANGED <<listings, categories, catVersion, assets, external, input,
                 error, result, uploads, prior, quiet, applied, sawAbsent>>
  /\ UNCHANGED snapVars
  /\ UNCHANGED pageVars

\* One run of the update function begins: a fresh transaction (empty read
\* set, empty write buffer), a new document reference, uploadUrl = null, and
\* the transaction.get calls of Promise.all are issued unless an image has to
\* be uploaded first.
BeginAttempt(c) ==
  /\ pc[c] = "start"
  /\ attempts' = [attempts EXCEPT ![c] = @ + 1]
  /\ nextId' = nextId + 1
  /\ documentRef' = [documentRef EXCEPT ![c] = nextId + 1]
  /\ idsAllocated' = [idsAllocated EXCEPT ![c] = @ \cup {nextId + 1}]
  /\ uploadUrl' = [uploadUrl EXCEPT ![c] = 0]
  /\ readVersions' = [readVersions EXCEPT ![c] = NoReads]
  /\ writes' = [writes EXCEPT ![c] = <<>>]
  /\ categoryDocs' = [categoryDocs EXCEPT ![c] =
                        [i \in 1..Len(input[c].categories) |-> "pending"]]
  /\ pc' = [pc EXCEPT ![c] = IF Truthy(input[c].image) THEN "upload" ELSE "read"]
  /\ UNCHANGED listenVars
  /\ UNCHANGED <<listings, categories, catVersion, assets, external, input,
                 error, result, uploads, prior, quiet, applied, sawAbsent>>
  /\ UNCHANGED snapVars
  /\ UNCHANGED pageVars

\* ./storage is not part of the sources: the uploader either returns a
\* reference for the asset or fails (section 6, Asset Uploader).
uploadImageAsync(image, id) == {"url", "error"}

\* Variant: the uploader's rejection is caught and the attempt goes on
\* without an image.
UploadSwallowed(c) ==
  /\ pc[c] = "upload"
  /\ uploads' = [uploads EXCEPT ![c] = @ + 1]
  /\ \E out \in uploadImageAsync(input[c].image, documentRef[c]) :
       IF out = "url"
         THEN /\ assets' = assets \cup {documentRef[c]}
              /\ uploadUrl' = [uploadUrl EXCEPT ![c] = documentRef[c]]
              /\ error' = error
         ELSE /\ error' = [error EXCEPT ![c] = "upload"]
              /\ UNCHANGED <<assets, uploadUrl>>
  /\ pc' = [pc EXCEPT ![c] = "read"]
  /\ UNCHANGED listenVars
  /\ UNCHANGED <<listings, categories, catVersion, nextId, external, input,
                 attempts, documentRef, categoryDocs, readVersions, writes,
                 result, idsAllocated, prior, quiet, applied, sawAbsent>>
  /\ UNCHANGED snapVars
  /\ UNCHANGED pageVars

\* if (image) { uploadUrl = await uploadImageAsync(image, documentRef.id) }
\* A rejection leaves the update function through the await: nothing was
\* buffered, nothing is committed, and runTransaction rejects.
Upload(c) ==
  /\ pc[c] = "upload"
  /\ uploads' = [uploads EXCEPT ![c] = @ + 1]
  /\ \E out \in uploadImageAsync(input[c].image, documentRef[c]) :
       IF out = "url"
         THEN /\ assets' = assets \cup {documentRef[c]}
              /\ uploadUrl' = [uploadUrl EXCEPT ![c] = documentRef[c]]
              /\ pc' = [pc EXCEPT ![c] = "read"]
              /\ error' = error
         ELSE /\ pc' = [pc EXCEPT ![c] = "failed"]
              /\ error' = [error EXCEPT ![c] = "upload"]
              /\ UNCHANGED <<assets, uploadUrl>>
  /\ UNCHANGED listenVars
  /\ UNCHANGED <<listings, categories, catVersion, nextId, external, input,
                 attempts, documentRef, categoryDocs, readVersions, writes,
                 result, idsAllocated, prior, quiet, applied, sawAbsent>>
  /\ UNCHANGED snapVars
  /\ UNCHANGED pageVars

\* Variant: a failed attempt is always followed by another one.
AfterAbortForever(c) == "start"

\* A failed attempt: runTransaction runs the update function again while
\* attempts remain, and rejects otherwise.
AfterAbort(c) == IF attempts[c] < MaxAttempts THEN "start" ELSE "failed"

\* One transaction.get(categoryRef) of the Promise.all resolves.  The
\* transaction records the version it saw; a second read of the same
\* document at another version aborts the attempt.
Read(c, i) ==
  /\ pc[c] = "read"
  /\ i \in DOMAIN categoryDocs[c]
  /\ categoryDocs[c][i] = "pending"
  /\ LET k == input[c].categories[i]
         seen == readVersions[c][k]
     IN IF seen # -1 /\ seen # catVersion[k]
          THEN /\ pc' = [pc EXCEPT ![c] = AfterAbort(c)]
               /\ error' = [error EXCEPT ![c] =
                              IF AfterAbort(c) = "failed" THEN "aborted" ELSE @]
               /\ UNCHANGED <<categoryDocs, readVersions, sawAbsent>>
          ELSE /\ readVersions' = [readVersions EXCEPT ![c][k] = catVersion[k]]
               /\ sawAbsent' = [sawAbsent EXCEPT ![c] =
                                  IF k \in DOMAIN categories THEN @ ELSE @ \cup {k}]
               /\ categoryDocs' = [categoryDocs EXCEPT ![c][i] =
                                     IF k \in DOMAIN categories
                                       THEN "exists" ELSE "absent"]
               /\ UNCHANGED <<pc, error>>
  /\ UNCHANGED listenVars
  /\ UNCHANGED <<storeVars, input, attempts, documentRef, uploadUrl, writes,
                 result, idsAllocated, uploads, prior, quiet, applied>>
  /\ UNCHANGED snapVars
  /\ UNCHANGED pageVars

\* Variant: a set carries no precondition even for a document that was read.
PreconditionNone(rv, written, k) == [kind |-> "none", v |-> 0]

\* Transaction.precondition(key) of the client SDK, used by transaction.set.
Precondition(rv, written, k) ==
  IF k \notin written /\ rv[k] # -1
    THEN IF rv[k] = 0 THEN [kind |-> "absent", v |-> 0]
                      ELSE [kind |-> "updateTime", v |-> rv[k]]
    ELSE [kind |-> "none", v |-> 0]

\* Transaction.preconditionForUpdate(key), used by transaction.update (only
\* reached for a document that was read as existing).
PreconditionForUpdate(rv, written, k) ==
  IF k \notin written /\ rv[k] # -1
    THEN [kind |-> "updateTime", v |-> rv[k]]
    ELSE [kind |-> "exists", v |-> 0]

\* { listingId: documentRef.id, sellerId, title, price, categories,
\*   isListingActive, ...(uploadUrl && { imagePath: uploadUrl }) }
ListingDoc(id, in, url) ==
  LET fields == [listingId |-> id, sellerId |-> in.sellerId,
                 title |-> in.title, price |-> in.price,
                 categories |-> in.categories,
                 isListingActive |-> in.isListingActive]
  IN IF url # 0 THEN ("imagePath" :> url) @@ fields ELSE fields

\* const listingData = { ... } as Listing
ListingData(c) == ListingDoc(documentRef[c], input[c], uploadUrl[c])

\* Variant: the exists() branch is lost and every aggregate is set to 1.
CategoryWriteAlwaysSet(c, i) ==
  LET k == input[c].categories[i]
      written == {input[c].categories[j] : j \in 1..(i - 1)}
  IN [op |-> "set", coll |-> "categories", key |-> k,
      data |-> [countActiveListings |-> 1],
      pre |-> Precondition(readVersions[c], written, k)]

\* The write of the forEach body for index i.
CategoryWrite(c, i) ==
  LET k == input[c].categories[i]
      written == {input[c].categories[j] : j \in 1..(i - 1)}
  IN IF categoryDocs[c][i] = "exists"
       THEN [op |-> "update", coll |-> "categories", key |-> k,
             data |-> [countActiveListings |-> "increment(1)"],
             pre |-> PreconditionForUpdate(readVersions[c], written, k)]
       ELSE [op |-> "set", coll |-> "categories", key |-> k,
             data |-> [countActiveListings |-> 1],
             pre |-> Precondition(readVersions[c], written, k)]

\* Variant: the reads are not awaited before the writes are buffered.
IssueWritesEarly(c) ==
  /\ pc[c] = "read"
  /\ writes' = [writes EXCEPT ![c] =
       <<[op |-> "set", coll |-> "listings", key |-> documentRef[c],
          data |-> ListingData(c), pre |-> [kind |-> "none", v |-> 0]]>>
       \o [i \in DOMAIN categoryDocs[c] |-> CategoryWrite(c, i)]]
  /\ pc' = [pc EXCEPT ![c] = "commit"]
  /\ UNCHANGED listenVars
  /\ UNCHANGED <<storeVars, input, attempts, documentRef, uploadUrl,
                 categoryDocs, readVersions, error, result, histVars>>
  /\ UNCHANGED snapVars
  /\ UNCHANGED pageVars

\* Promise.all has resolved: the rest of the update function buffers
\* transaction.set(documentRef, listingData) and one write per category, and
\* returns, which sends the commit.  The listing document was never read, so
\* its set carries no precondition.
IssueWrites(c) ==
  /\ pc[c] = "read"
  /\ \A i \in DOMAIN categoryDocs[c] : categoryDocs[c][i] # "pending"
  /\ writes' = [writes EXCEPT ![c] =
       <<[op |-> "set", coll |-> "listings", key |-> documentRef[c],
          data |-> ListingData(c), pre |-> [kind |-> "none", v |-> 0]]>>
       \o [i \in DOMAIN categoryDocs[c] |-> CategoryWrite(c, i)]]
  /\ pc' = [pc EXCEPT ![c] = "commit"]
  /\ UNCHANGED listenVars
  /\ UNCHANGED <<storeVars, input, attempts, documentRef, uploadUrl,
                 categoryDocs, readVersions, error, result, histVars>>
  /\ UNCHANGED snapVars
  /\ UNCHANGED pageVars

\* The store's check of one write's precondition at commit time.
PreconditionHolds(w) ==
  CASE w.pre.kind = "none" -> TRUE
    [] w.pre.kind = "absent" -> w.key \notin DOMAIN categories
    [] w.pre.kind = "exists" -> w.key \in DOMAIN categories
    [] w.pre.kind = "updateTime" ->
         w.key \in DOMAIN categories /\ catVersion[w.key] = w.pre.v

CategoryWrites(ws) == SelectSeq(ws, LAMBDA w : w.coll = "categories")

ListingWrites(ws) == SelectSeq(ws, LAMBDA w : w.coll = "listings")

\* Variant: an update replaces the document by the incremented field alone.
RECURSIVE ApplyCategoryWritesReplacing(_, _)
ApplyCategoryWritesReplacing(ws, cats) ==
  IF ws = <<>> THEN cats
  ELSE LET w == Head(ws)
           after == IF w.op = "set"
                      THEN (w.key :> w.data) @@ cats
                      ELSE [cats EXCEPT ![w.key] =
                              [countActiveListings |-> Count(cats, w.key) + 1]]
       IN ApplyCategoryWritesReplacing(Tail(ws), after)

\* The category collection after the writes ws, applied in order.
RECURSIVE ApplyCategoryWrites(_, _)
ApplyCategoryWrites(ws, cats) ==
  IF ws = <<>> THEN cats
  ELSE LET w == Head(ws)
           after == IF w.op = "set"
                      THEN (w.key :> w.data) @@ cats
                      ELSE [cats EXCEPT ![w.key] =
                              Increment(@, "countActiveListings")]
       IN ApplyCategoryWrites(Tail(ws), after)

\* The listing collection after the writes ws.
RECURSIVE ApplyListingWrites(_, _)
ApplyListingWrites(ws, ls) ==
  IF ws = <<>> THEN ls
  ELSE ApplyListingWrites(Tail(ws), (Head(ws).key :> Head(ws).data) @@ ls)

WrittenKeys(ws) == {ws[i].key : i \in DOMAIN ws}

\* Variant: a commit whose preconditions fail still lets the listing write
\* through before the attempt is aborted.
CommitTorn(c) ==
  /\ pc[c] = "commit"
  /\ listings' = ApplyListingWrites(ListingWrites(writes[c]), listings)
  /\ IF \A i \in DOMAIN writes[c] : PreconditionHolds(writes[c][i])
       THEN /\ categories' =
                 ApplyCategoryWrites(CategoryWrites(writes[c]), categories)
            /\ catVersion' =
                 [k \in CategoryType |->
                    IF k \in WrittenKeys(CategoryWrites(writes[c]))
                      THEN catVersion[k] + 1 ELSE catVersion[k]]
            /\ pc' = [pc EXCEPT ![c] = "done"]
            /\ result' = [result EXCEPT ![c] = 0]
            /\ quiet' = Disturb(c)
            /\ applied' = [applied EXCEPT ![c] =
                 [k \in CategoryType |->
                    @[k] + Count(categories', k) - Count(categories, k)]]
            /\ error' = error
       ELSE /\ pc' = [pc EXCEPT ![c] = AfterAbort(c)]
            /\ error' = [error EXCEPT ![c] =
                           IF AfterAbort(c) = "failed" THEN "aborted" ELSE @]
            /\ UNCHANGED <<categories, catVersion, result, quiet, applied>>
  /\ UNCHANGED listenVars
  /\ UNCHANGED <<nextId, assets, external, input, attempts, documentRef,
                 uploadUrl, categoryDocs, readVersions, writes, idsAllocated,
                 uploads, prior, sawAbsent>>
  /\ UNCHANGED snapVars
  /\ UNCHANGED pageVars

\* Variant: a commit that was applied is reported to the client as aborted,
\* so the update function runs again.
CommitLostAck(c) ==
  /\ pc[c] = "commit"
  /\ IF \A i \in DOMAIN writes[c] : PreconditionHolds(writes[c][i])
       THEN /\ listings' = ApplyListingWrites(ListingWrites(writes[c]), listings)
            /\ categories' =
                 ApplyCategoryWrites(CategoryWrites(writes[c]), categories)
            /\ catVersion' =
                 [k \in CategoryType |->
                    IF k \in WrittenKeys(CategoryWrites(writes[c]))
                      THEN catVersion[k] + 1 ELSE catVersion[k]]
            /\ \E acked \in BOOLEAN :
                 /\ pc' = [pc EXCEPT ![c] = IF acked THEN "done" ELSE AfterAbort(c)]
                 /\ result' = [result EXCEPT ![c] = IF acked THEN 0 ELSE @]
            /\ quiet' = Disturb(c)
            /\ applied' = [applied EXCEPT ![c] =
                 [k \in CategoryType |->
                    @[k] + Count(categories', k) - Count(categories, k)]]
            /\ error' = error
       ELSE /\ pc' = [pc EXCEPT ![c] = AfterAbort(c)]
            /\ error' = [error EXCEPT ![c] =
                           IF AfterAbort(c) = "failed" THEN "aborted" ELSE @]
            /\ UNCHANGED <<listings, categories, catVersion, result, quiet,
                           applied>>
  /\ UNCHANGED listenVars
  /\ UNCHANGED <<nextId, assets, external, input, attempts, documentRef,
                 uploadUrl, categoryDocs, readVersions, writes, idsAllocated,
                 uploads, prior, sawAbsent>>
  /\ UNCHANGED snapVars
  /\ UNCHANGED pageVars

\* The store processes the commit: every buffered write becomes visible in
\* this one step when all preconditions hold, and none does otherwise (the
\* attempt is then aborted and runTransaction retries or gives up).
Commit(c) ==
  /\ pc[c] = "commit"
  /\ IF \A i \in DOMAIN writes[c] : PreconditionHolds(writes[c][i])
       THEN /\ listings' = ApplyListingWrites(ListingWrites(writes[c]), listings)
            /\ categories' =
                 ApplyCategoryWrites(CategoryWrites(writes[c]), categories)
            /\ catVersion' =
                 [k \in CategoryType |->
                    IF k \in WrittenKeys(CategoryWrites(writes[c]))
                      THEN catVersion[k] + 1 ELSE catVersion[k]]
            /\ pc' = [pc EXCEPT ![c] = "done"]
            /\ result' = [result EXCEPT ![c] = 0]
            /\ quiet' = Disturb(c)
            /\ applied' = [applied EXCEPT ![c] =
                 [k \in CategoryType |->
                    @[k] + Count(categories', k) - Count(categories, k)]]
            /\ error' = error
       ELSE /\ pc' = [pc EXCEPT ![c] = AfterAbort(c)]
            /\ error' = [error EXCEPT ![c] =
                           IF AfterAbort(c) = "failed" THEN "aborted" ELSE @]
            /\ UNCHANGED <<listings, categories, catVersion, result, quiet,
                           applied>>
  /\ UNCHANGED listenVars
  /\ UNCHANGED <<nextId, assets, external, input, attempts, documentRef,
                 uploadUrl, categoryDocs, readVersions, writes, idsAllocated,
                 uploads, prior, sawAbsent>>
  /\ UNCHANGED snapVars
  /\ UNCHANGED pageVars

\* A read or the commit meets a store failure that is no conflict
\* (permission, connectivity): runTransaction rejects, nothing is written.
StoreFail(c) ==
  /\ pc[c] \in {"read", "commit"}
  /\ pc' = [pc EXCEPT ![c] = "failed"]
  /\ error' = [error EXCEPT ![c] = "unavailable"]
  /\ UNCHANGED listenVars
  /\ UNCHANGED <<storeVars, input, attempts, documentRef, uploadUrl,
                 categoryDocs, readVersions, writes, result, histVars>>
  /\ UNCHANGED snapVars
  /\ UNCHANGED pageVars

\* ------------------------------------------- getAllListings, the listener

publishVars == <<categories, catVersion, assets, external, callVars, histVars>>

Rank(u) == CHOOSE i \in DOMAIN UserIds : UserIds[i] = u

\* Document ids in the order of a query on sellerId: by sellerId, then id.
RECURSIVE InOrder(_, _)
InOrder(ids, ls) ==
  IF ids = {} THEN <<>>
  ELSE LET first == CHOOSE i \in ids : \A j \in ids :
                      \/ Rank(ls[i].sellerId) < Rank(ls[j].sellerId)
                      \/ ls[i].sellerId = ls[j].sellerId /\ i <= j
       IN <<first>> \o InOrder(ids \ {first}, ls)

\* Variant: the filter is dropped from the query.
QueryDocsUnfiltered(id) ==
  LET ids == {i \in DOMAIN listings : "sellerId" \in DOMAIN listings[i]}
      order == InOrder(ids, listings)
  IN [n \in DOMAIN order |-> [id |-> order[n], data |-> listings[order[n]]]]

\* query(collection(firestore, "listings"), where("sellerId", "!=", id)):
\* the documents that have a sellerId other than id, as querySnapshot.docs.
QueryDocs(id) ==
  LET ids == {i \in DOMAIN listings :
                "sellerId" \in DOMAIN listings[i] /\ listings[i].sellerId # id}
      order == InOrder(ids, listings)
  IN [n \in DOMAIN order |-> [id |-> order[n], data |-> listings[order[n]]]]

\* Variant: the accumulator is not spread, so only the last document stays.
ReduceNoSpread(docs, acc) ==
  IF docs = <<>> THEN acc
  ELSE (docs[Len(docs)].id :> docs[Len(docs)].data)

\* docs.reduce((acc, doc) => ({...acc, [doc.id]: doc.data()}), {})
RECURSIVE Reduce(_, _)
Reduce(docs, acc) ==
  IF docs = <<>> THEN acc
  ELSE Reduce(Tail(docs), (Head(docs).id :> Head(docs).data) @@ acc)

\* const querySnapshot = await getDocs(listingsRef); return ...reduce(...)
GetAllListings(id) ==
  /\ fetchedFor' = id
  /\ fetched' = Reduce(QueryDocs(id), <<>>)
  /\ UNCHANGED <<storeVars, publishVars, changes, subscribed, listenerUser,
                 emitted, lastEmitted, inflight, shown, setListingsCalls>>
  /\ UNCHANGED snapVars
  /\ UNCHANGED pageVars

\* createPostListingListener({userId, setListings}): onSnapshot registers
\* the callback.
Subscribe(userId) ==
  /\ subscribed = "none"
  /\ subscribed' = "active"
  /\ listenerUser' = userId
  /\ UNCHANGED <<storeVars, publishVars, changes, emitted, lastEmitted,
                 inflight, shown, setListingsCalls, fetchedFor, fetched>>
  /\ UNCHANGED snapVars
  /\ UNCHANGED pageVars

\* The store raises a snapshot event for a registered listener: the first
\* one unconditionally, later ones when the result of the query has changed.
Emit ==
  /\ subscribed = "active"
  /\ Len(inflight) < MaxInflight
  /\ ~emitted \/ QueryDocs(listenerUser) # lastEmitted
  /\ emitted' = TRUE
  /\ lastEmitted' = QueryDocs(listenerUser)
  /\ inflight' = Append(inflight, QueryDocs(listenerUser))
  /\ UNCHANGED <<storeVars, publishVars, changes, subscribed, listenerUser,
                 shown, setListingsCalls, fetchedFor, fetched>>
  /\ inflightAt' = Append(inflightAt, changes)
  /\ shownAt' = shownAt
  /\ UNCHANGED pageVars

\* Variant: the callback also runs for a listener that was unsubscribed.
DeliverUnmuted ==
  /\ subscribed # "none"
  /\ inflight # <<>>
  /\ shown' = Reduce(Head(inflight), <<>>)
  /\ setListingsCalls' = setListingsCalls + 1
  /\ inflight' = Tail(inflight)
  /\ UNCHANGED <<storeVars, publishVars, changes, subscribed, listenerUser,
                 emitted, lastEmitted, fetchedFor, fetched>>
  /\ shownAt' = Head(inflightAt)
  /\ inflightAt' = Tail(inflightAt)
  /\ UNCHANGED pageVars

\* The callback of onSnapshot runs for the oldest event: it reduces
\* querySnapshot.docs to a mapping and passes it to setListings.  The
\* observer of a listener that was unsubscribed is muted and is not run.
Deliver ==
  /\ subscribed = "active"
  /\ inflight # <<>>
  /\ shown' = Reduce(Head(inflight), <<>>)
  /\ setListingsCalls' = setListingsCalls + 1
  /\ inflight' = Tail(inflight)
  /\ UNCHANGED <<storeVars, publishVars, changes, subscribed, listenerUser,
                 emitted, lastEmitted, fetchedFor, fetched>>
  /\ shownAt' = Head(inflightAt)
  /\ inflightAt' = Tail(inflightAt)
  /\ UNCHANGED pageVars

\* An event raised before the unsubscribe reaches the muted observer and is
\* dropped.
Discard ==
  /\ subscribed = "cancelled"
  /\ inflight # <<>>
  /\ inflight' = Tail(inflight)
  /\ UNCHANGED <<storeVars, publishVars, changes, subscribed, listenerUser,
                 emitted, lastEmitted, shown, setListingsCalls, fetchedFor,
                 fetched>>
  /\ inflightAt' = Tail(inflightAt)
  /\ shownAt' = shownAt
  /\ UNCHANGED pageVars

\* The caller invokes the function createPostListingListener returned.
Unsubscribe ==
  /\ subscribed = "active"
  /\ subscribed' = "cancelled"
  /\ UNCHANGED <<storeVars, publishVars, changes, listenerUser, emitted,
                 lastEmitted, inflight, shown, setListingsCalls, fetchedFor,
                 fetched>>
  /\ UNCHANGED snapVars
  /\ UNCHANGED pageVars

\* Another client publishes a listing.
ExternalInsert(seller) ==
  /\ changes < MaxChanges
  /\ changes' = changes + 1
  /\ nextId' = nextId + 1
  /\ listings' = ((nextId + 1) :>
                    ListingDoc(nextId + 1,
                               [BaseInput EXCEPT !.sellerId = seller], 0))
                  @@ listings
  /\ UNCHANGED <<categories, catVersion, assets, external, callVars, histVars,
                 subscribed, listenerUser, emitted, lastEmitted, inflight,
                 shown, setListingsCalls, fetchedFor, fetched>>
  /\ UNCHANGED snapVars
  /\ UNCHANGED pageVars

\* Another client changes a listing (it is sold, or put up again).
ExternalUpdate(id) ==
  /\ changes < MaxChanges
  /\ id \in DOMAIN listings
  /\ changes' = changes + 1
  /\ listings' = [listings EXCEPT ![id].isListingActive = ~@]
  /\ UNCHANGED <<categories, catVersion, nextId, assets, external, callVars,
                 histVars, subscribed, listenerUser, emitted, lastEmitted,
                 inflight, shown, setListingsCalls, fetchedFor, fetched>>
  /\ UNCHANGED snapVars
  /\ UNCHANGED pageVars

\* Another client deletes a listing.
ExternalDelete(id) ==
  /\ changes < MaxChanges
  /\ id \in DOMAIN listings
  /\ changes' = changes + 1
  /\ listings' = [i \in DOMAIN listings \ {id} |-> listings[i]]
  /\ UNCHANGED <<categories, catVersion, nextId, assets, external, callVars,
                 histVars, subscribed, listenerUser, emitted, lastEmitted,
                 inflight, shown, setListingsCalls, fetchedFor, fetched>>
  /\ UNCHANGED snapVars
  /\ UNCHANGED pageVars

Users == {UserIds[i] : i \in DOMAIN UserIds}

NextListen ==
  \/ \E u \in Users : GetAllListings(u)
  \/ \E u \in Users : Subscribe(u)
  \/ Emit
  \/ Deliver
  \/ Discard
  \/ Unsubscribe
  \/ \E u \in Users : ExternalInsert(u)
  \/ \E id \in DOMAIN listings : ExternalUpdate(id)
  \/ \E id \in DOMAIN listings : ExternalDelete(id)

SpecListen == Init /\ [][NextListen]_vars

\* The store keeps raising the events that are due and the event loop keeps
\* running the callbacks that are queued.
SpecListenFair == SpecListen /\ WF_vars(Emit) /\ WF_vars(Deliver)

\* ------------------------------- getDocument, setDocument, getUserProfile

restVars == <<storeVars, callVars, histVars, listenVars, snapVars>>

\* Data passed to setDocument for a user document.
UserData ==
  {[fullName |-> "Ann"], [phone |-> "555"],
   [fullName |-> "Bob", phone |-> "556"]}

\* doc(firestore, path) followed by getDoc: <<>> when the document does not
\* exist, else <<data>>.
DocAt(coll, id) ==
  IF coll = "listings"
    THEN IF id \in DOMAIN listings THEN <<listings[id]>> ELSE <<>>
    ELSE IF id \in DOMAIN users THEN <<users[id]>> ELSE <<>>

\* What the store does for one getDoc: ok = FALSE is a failed request.
StoreCause(coll, id, ok) ==
  IF ~ok THEN "failure"
  ELSE IF DocAt(coll, id) # <<>> THEN "found" ELSE "absent"

\* getDocument(path): the data, or null when the document does not exist; a
\* rejection of getDoc is not caught and rejects the call.
getDocument(coll, id, ok) ==
  IF ~ok THEN [outcome |-> "error", value |-> <<>>]
  ELSE IF DocAt(coll, id) # <<>>
         THEN [outcome |-> "data", value |-> DocAt(coll, id)]
         ELSE [outcome |-> "null", value |-> <<>>]

\* getUserProfile(userId): as getDocument on users/{userId}, inside a
\* try/catch that logs the error and returns null.
getUserProfile(userId, ok) ==
  IF ~ok THEN [outcome |-> "null", value |-> <<>>]
  ELSE IF DocAt("users", userId) # <<>>
         THEN [outcome |-> "data", value |-> DocAt("users", userId)]
         ELSE [outcome |-> "null", value |-> <<>>]

\* A caller awaits getDocument(`${coll}/${id}`).
GetDocument(coll, id, ok) ==
  /\ lookupFn' = "getDocument"
  /\ lookupCause' = StoreCause(coll, id, ok)
  /\ lookupOutcome' = getDocument(coll, id, ok).outcome
  /\ UNCHANGED <<restVars, users, lastSet, detailVars>>

\* A caller awaits getUserProfile(userId).
GetUserProfile(userId, ok) ==
  /\ lookupFn' = "getUserProfile"
  /\ lookupCause' = StoreCause("users", userId, ok)
  /\ lookupOutcome' = getUserProfile(userId, ok).outcome
  /\ UNCHANGED <<restVars, users, lastSet, detailVars>>

\* The document after setDoc(documentRef, data, options).
SetDoc(before, data, options) ==
  IF options.merge THEN data @@ before ELSE data

\* setDocument(`users/${userId}`, data, merge):
\* await setDoc(documentRef, data, { merge: true })
SetDocument(userId, data, merge) ==
  LET before == IF userId \in DOMAIN users THEN users[userId] ELSE <<>>
  IN /\ users' = (userId :> SetDoc(before, data, [merge |-> TRUE])) @@ users
     /\ lastSet' = [called |-> TRUE, id |-> userId, data |-> data,
                    merge |-> merge, before |-> before]
     /\ UNCHANGED <<restVars, lookupFn, lookupCause, lookupOutcome, detailVars>>

\* ------------------------------------------------------------ DetailItem

\* The screen is opened: useLocalSearchParams gives itemId (0 = none), the
\* states start as null and the effects are due after the first render.
Mount(item) ==
  /\ ~dMounted
  /\ dMounted' = TRUE
  /\ dItemId' = item
  /\ UNCHANGED <<restVars, lookupVars, dListing, dTimeAgo, dUser,
                 dListingFetch, dListingResult, dUserFetch, dUserFetchFor,
                 dUserDeps>>

\* useEffect(..., [itemId]): fetchListing() runs once; with an itemId it
\* awaits getDocument(`listings/${itemId}`).
RunFetchListing ==
  /\ dMounted
  /\ dListingFetch = "idle"
  /\ dListingFetch' = IF dItemId # 0 THEN "fetching" ELSE "done"
  /\ UNCHANGED <<restVars, lookupVars, dMounted, dItemId, dListing, dTimeAgo,
                 dUser, dListingResult, dUserFetch, dUserFetchFor, dUserDeps>>

\* getDocument resolves inside fetchListing: with the data,
\* setTimeAgo(getTimeAgo(listing.datePosted)) and setListing(listing) run;
\* with null, listing.datePosted throws a TypeError before either runs; a
\* rejection leaves fetchListing at the await.
ResolveFetchListing(ok) ==
  /\ dListingFetch = "fetching"
  /\ LET r == getDocument("listings", dItemId, ok)
     IN /\ dListingResult' = r.outcome
        /\ dListingFetch' = CASE r.outcome = "data" -> "done"
                              [] r.outcome = "null" -> "threw"
                              [] OTHER -> "rejected"
        /\ dListing' = IF r.outcome = "data" THEN r.value ELSE dListing
        /\ dTimeAgo' = IF r.outcome = "data" THEN TRUE ELSE dTimeAgo
  /\ UNCHANGED <<restVars, lookupVars, dMounted, dItemId, dUser, dUserFetch,
                 dUserFetchFor, dUserDeps>>

\* useEffect(..., [user, listing]): after a render in which user or listing
\* is not the value of the last run (Object.is), fetchUser() runs; with a
\* listing it awaits getDocument(`users/${listing.sellerId}`).
RunFetchUser ==
  /\ dMounted
  /\ dUserDeps # <<dUser, dListing>>
  /\ dUserDeps' = <<dUser, dListing>>
  /\ IF dListing # <<>>
       THEN /\ dUserFetch' = "fetching"
            /\ dUserFetchFor' = dListing[1].sellerId
       ELSE UNCHANGED <<dUserFetch, dUserFetchFor>>
  /\ UNCHANGED <<restVars, lookupVars, dMounted, dItemId, dListing, dTimeAgo,
                 dUser, dListingFetch, dListingResult>>

\* getDocument resolves inside fetchUser and setUser(user) runs: data() is
\* a new object at every call, so the state takes an identity it did not
\* have; null leaves a null state as it is.
ResolveFetchUser(ok) ==
  /\ dUserFetch = "fetching"
  /\ dUserFetch' = "idle"
  /\ LET r == getDocument("users", dUserFetchFor, ok)
     IN dUser' = CASE r.outcome = "data" -> IF dUser = 1 THEN 2 ELSE 1
                   [] r.outcome = "null" -> 0
                   [] OTHER -> dUser
  /\ UNCHANGED <<restVars, lookupVars, dMounted, dItemId, dListing, dTimeAgo,
                 dListingFetch, dListingResult, dUserFetchFor, dUserDeps>>

\* What DetailItem renders.
Screen ==
  IF dItemId = 0 THEN "No item ID provided"
  ELSE IF dListing = <<>> THEN "Loading..."
  ELSE "detail"

\* Point reads and writes of user documents.
NextLookup ==
  \/ \E u \in Users, d \in UserData, merge \in BOOLEAN : SetDocument(u, d, merge)
  \/ \E u \in Users, ok \in BOOLEAN : GetDocument("users", u, ok)
  \/ \E u \in Users, ok \in BOOLEAN : GetUserProfile(u, ok)

SpecLookup == Init /\ [][NextLookup]_vars

\* The detail screen, over a store in which other clients publish listings
\* and users save their profile.
NextDetail ==
  \/ \E u \in Users : SetDocument(u, [fullName |-> "Ann"], TRUE)
  \/ \E u \in Users : ExternalInsert(u)
  \/ \E item \in 0..MaxItemId : Mount(item)
  \/ RunFetchListing
  \/ \E ok \in BOOLEAN : ResolveFetchListing(ok)
  \/ RunFetchUser
  \/ \E ok \in BOOLEAN : ResolveFetchUser(ok)

SpecDetail == Init /\ [][NextDetail]_vars

\* React runs the effects that are due and the requests get their answers.
SpecDetailFair ==
  SpecDetail /\ WF_vars(RunFetchListing) /\ WF_vars(RunFetchUser)
             /\ WF_vars(\E ok \in BOOLEAN : ResolveFetchListing(ok))
             /\ WF_vars(\E ok \in BOOLEAN : ResolveFetchUser(ok))

Next ==
  \/ \E c \in Calls, in \in Inputs : Call(c, in)
  \/ \E c \in Calls : BeginAttempt(c)
  \/ \E c \in Calls : Upload(c)
  \/ \E c \in Calls, i \in 1..2 : Read(c, i)
  \/ \E c \in Calls : IssueWrites(c)
  \/ \E c \in Calls : Commit(c)
  \/ \E c \in Calls : StoreFail(c)
  \/ \E k \in CategoryType : ExternalSale(k)

Spec == Init /\ [][Next]_vars

\* Another client commits to an aggregate that the attempt of call c read,
\* between that read and the commit of the attempt, so that the commit's
\* precondition on the aggregate fails.  At most one such commit per attempt.
Conflict(c) ==
  /\ pc[c] = "commit"
  /\ attempts[c] <= MaxAttempts
  /\ \A i \in DOMAIN writes[c] : PreconditionHolds(writes[c][i])
  /\ \E k \in {input[c].categories[i] : i \in DOMAIN input[c].categories} :
       /\ categories' =
            IF k \in DOMAIN categories
              THEN [categories EXCEPT ![k] = Increment(@, "countSoldListings")]
              ELSE (k :> [countSoldListings |-> 1]) @@ categories
       /\ catVersion' = [catVersion EXCEPT ![k] = @ + 1]
  /\ quiet' = Disturb("external")
  /\ UNCHANGED listenVars
  /\ UNCHANGED <<listings, nextId, assets, external, callVars, idsAllocated,
                 uploads, prior, applied, sawAbsent>>
  /\ UNCHANGED snapVars
  /\ UNCHANGED pageVars

\* One uploadListing call whose every attempt can meet a conflicting commit
\* of another client.
NextRetry ==
  \/ \E in \in ValidInputs : Call("c1", in)
  \/ \E c \in Calls : BeginAttempt(c)
  \/ \E c \in Calls : Upload(c)
  \/ \E c \in Calls, i \in 1..2 : Read(c, i)
  \/ \E c \in Calls : IssueWrites(c)
  \/ \E c \in Calls : Commit(c)
  \/ \E c \in Calls : StoreFail(c)
  \/ \E c \in Calls : Conflict(c)

SpecRetry == Init /\ [][NextRetry]_vars

\* The SDK and the store make progress on every step of a call; the other
\* clients are free to commit or not.
SpecRetryFair ==
  SpecRetry /\ \A c \in Calls :
                /\ WF_vars(BeginAttempt(c))
                /\ WF_vars(Upload(c))
                /\ WF_vars(\E i \in 1..2 : Read(c, i))
                /\ WF_vars(IssueWrites(c))
                /\ WF_vars(Commit(c))


\* ---------------------------------------------------------------- claims

\* Listing documents in the store that call c allocated the id of.
Visible(c) == idsAllocated[c] \cap DOMAIN listings

Named(c) == {input[c].categories[i] : i \in DOMAIN input[c].categories}

\* The operation of the buffered write of call c to aggregate k.
WriteOp(c, k) ==
  LET ws == SelectSeq(CategoryWrites(writes[c]), LAMBDA w : w.key = k)
  IN IF ws = <<>> THEN "none" ELSE ws[1].op

\* C1: in every state a reader can see, a call's listing document is in the
\* store exactly when each aggregate it names exists and carries the call's
\* +1, and otherwise the call has changed no aggregate; a call that ended in
\* an error has neither a listing nor an aggregate change in the store.
PublishAtomic ==
  \A c \in Calls :
    /\ Visible(c) # {} =>
         /\ pc[c] = "done"
         /\ \A k \in CategoryType :
              /\ applied[c][k] = IF k \in Named(c) THEN 1 ELSE 0
              /\ k \in Named(c) => k \in DOMAIN categories /\ Count(categories, k) >= 1
    /\ Visible(c) = {} => \A k \in CategoryType : applied[c][k] = 0
    /\ pc[c] = "failed" => Visible(c) = {}

\* One call has committed a listing with two categories while the other was
\* rejected by the store with its writes already buffered.
PublishAtomicWitness ==
  \E c, d \in Calls :
    /\ pc[c] = "done" /\ Len(input[c].categories) = 2 /\ Visible(c) # {}
    /\ pc[d] = "failed" /\ error[d] = "unavailable" /\ writes[d] # <<>>

\* C2: a call that needed more than one attempt has, once it has committed,
\* exactly one listing document (the last attempt's) and exactly one +1 on
\* each category it names; until then it has contributed nothing.
RetryIdempotent ==
  \A c \in Calls :
    attempts[c] >= 2 =>
      IF pc[c] = "done"
        THEN /\ Visible(c) = {documentRef[c]}
             /\ \A k \in CategoryType :
                  applied[c][k] = IF k \in Named(c) THEN 1 ELSE 0
        ELSE /\ Visible(c) = {}
             /\ \A k \in CategoryType : applied[c][k] = 0

\* A call has committed on its second or later attempt.
RetryIdempotentWitness ==
  \E c \in Calls : pc[c] = "done" /\ attempts[c] >= 2 /\ Named(c) # {}

\* C3: when both calls have read the same aggregate as absent and both have
\* succeeded, its countActiveListings is 2, one call created it, and the
\* other one retried and incremented it.
AbsentRace ==
  \A c, d \in Calls : \A k \in CategoryType :
    (c # d /\ pc[c] = "done" /\ pc[d] = "done"
       /\ k \in sawAbsent[c] /\ k \in sawAbsent[d]) =>
      /\ Count(categories, k) = 2
      /\ \E r \in {c, d} : \E o \in {c, d} \ {r} :
           /\ attempts[r] >= 2
           /\ WriteOp(r, k) = "update"
           /\ WriteOp(o, k) = "set"

\* Both calls read BIKE as absent, and both have succeeded.
AbsentRaceWitness ==
  \E c, d \in Calls :
    /\ c # d /\ pc[c] = "done" /\ pc[d] = "done"
    /\ "BIKE" \in sawAbsent[c] /\ "BIKE" \in sawAbsent[d]
    /\ Count(categories, "BIKE") = 2

\* C4: across the retries of one call the listing id is allocated once and
\* the uploader is invoked at most once.
AllocatedOnce ==
  \A c \in Calls : Cardinality(idsAllocated[c]) <= 1 /\ uploads[c] <= 1

\* C5: a call whose asset upload failed has been rejected, and no listing
\* and no aggregate change of that call is in the store.
UploadFailureWritesNothing ==
  \A c \in Calls :
    error[c] = "upload" =>
      /\ pc[c] = "failed"
      /\ result[c] = -1
      /\ Visible(c) = {}
      /\ \A k \in CategoryType : applied[c][k] = 0

\* A call's upload has failed while the other call has filled the store.
UploadFailureWitness ==
  \E c, d \in Calls :
    /\ error[c] = "upload" /\ Truthy(input[c].image)
    /\ pc[d] = "done" /\ Named(c) \cap Named(d) # {}

\* C6: a call whose input breaks a precondition is rejected without an
\* attempt and writes nothing.
InvalidInputRejected ==
  \A c \in Calls :
    (pc[c] # "idle" /\ ~SpecPrecondition(input[c])) =>
      /\ pc[c] # "done"
      /\ Visible(c) = {}
      /\ \A k \in CategoryType : applied[c][k] = 0

ExcludesOwner(m, u) == \A id \in DOMAIN m : m[id].sellerId # u

OncePerDocument(docs) ==
  \A i, j \in DOMAIN docs : docs[i].id = docs[j].id => i = j

NoCallbackAfterCancel ==
  [][subscribed = "cancelled" =>
       setListingsCalls' = setListingsCalls /\ shown' = shown]_vars

\* The listener was cancelled with an event in flight, and the collection
\* has changed since.
NoCallbackAfterCancelWitness ==
  /\ subscribed = "cancelled"
  /\ inflight # <<>>
  /\ QueryDocs(listenerUser) # lastEmitted

\* The documents a listener of user u is to be shown, straight from the
\* collection.
Matching(u) ==
  LET ids == {i \in DOMAIN listings : listings[i].sellerId # u}
  IN [i \in ids |-> listings[i]]

LookupDistinguishesFailure ==
  /\ lookupCause = "absent" => lookupOutcome = "null"
  /\ lookupCause = "found" => lookupOutcome = "data"
  /\ lookupCause = "failure" => lookupOutcome = "error"

\* What the last setDocument call merged: the fields of data over the
\* fields the document had.
Merged(data, before) ==
  [f \in DOMAIN data \cup DOMAIN before |->
     IF f \in DOMAIN data THEN data[f] ELSE before[f]]

\* C13: after setDocument with merge = true the document has the fields of
\* data merged into the fields it had; after merge = false it is data alone.
SetHonoursMerge ==
  lastSet.called =>
    users[lastSet.id] =
      IF lastSet.merge THEN Merged(lastSet.data, lastSet.before)
                       ELSE lastSet.data

\* C19: the fetchUser effect of the detail screen stops: from some point on
\* no getDocument call for the seller's user document is in flight.
FetchUserQuiesces == <>[](dUserFetch = "idle")

\* C20: when getDocument gives fetchListing the null result, fetchListing
\* raises no error and the screen stays at "Loading..." with listing null.
NotFoundKeepsLoading ==
  dListingResult = "null" =>
    /\ dListingFetch # "threw"
    /\ dListing = <<>>
    /\ Screen = "Loading..."

\* Stored listings that are active and name category k.
ActiveListings(k) ==
  {id \in DOMAIN listings :
     /\ listings[id].isListingActive
     /\ \E i \in DOMAIN listings[id].categories : listings[id].categories[i] = k}

\* C14: for every category key, countActiveListings equals the number of
\* stored listings that are active and name the key, and is never negative.
ActiveCountInvariant ==
  \A k \in CategoryType :
    /\ Count(categories, k) >= 0
    /\ Count(categories, k) = Cardinality(ActiveListings(k))

\* C16: in every attempt, the transactional reads of all aggregates named by
\* the listing have completed before a write is buffered.
ReadsBeforeWrites ==
  \A c \in Calls :
    writes[c] # <<>> =>
      /\ \A i \in DOMAIN categoryDocs[c] : categoryDocs[c][i] # "pending"
      /\ \A k \in Named(c) : readVersions[c][k] # -1
      /\ Len(writes[c]) = 1 + Len(input[c].categories)

\* An attempt over two categories has buffered its three writes and waits
\* for its commit.
ReadsBeforeWritesWitness ==
  \E c \in Calls :
    /\ pc[c] = "commit"
    /\ Len(input[c].categories) = 2
    /\ Len(writes[c]) = 3

\* C17: the uploader is awaited only before the transaction is entered: no
\* call is waiting for its upload while one of its attempts is open.
UploadBeforeTransaction ==
  \A c \in Calls : pc[c] = "upload" => attempts[c] = 0

\* C18: the commit of a call adds exactly one listing document and leaves
\* every other listing, every aggregate it does not name, every field other
\* than countActiveListings of the aggregates it names, and every user
\* document as they were; no document disappears.
PublishFrame ==
  [][\A c \in Calls :
       (pc[c] = "commit" /\ pc'[c] = "done") =>
         /\ documentRef[c] \notin DOMAIN listings
         /\ DOMAIN listings' = DOMAIN listings \cup {documentRef[c]}
         /\ \A id \in DOMAIN listings : listings'[id] = listings[id]
         /\ DOMAIN categories' = DOMAIN categories \cup Named(c)
         /\ \A k \in DOMAIN categories :
              IF k \in Named(c)
                THEN \A f \in DOMAIN categories[k] \ {"countActiveListings"} :
                       /\ f \in DOMAIN categories'[k]
                       /\ categories'[k][f] = categories[k][f]
                ELSE categories'[k] = categories[k]
         /\ users' = users]_vars

\* A call has incremented an aggregate that already carried a
\* countSoldListings when the call read it.
PublishFrameWitness ==
  \E c \in Calls : \E k \in Named(c) :
    /\ pc[c] = "done"
    /\ WriteOp(c, k) = "update"
    /\ readVersions[c][k] = 2
    /\ "countSoldListings" \in DOMAIN categories[k]
    /\ Count(categories, k) = 2

\* C15: every call of uploadListing completes, with success or with a
\* terminal failure, and never makes more than MaxAttempts attempts, even
\* when every attempt meets a conflicting commit.
PublishTerminates ==
  /\ \A c \in Calls : pc[c] = "start" ~> pc[c] \in {"done", "failed"}
  /\ [](\A c \in Calls : attempts[c] <= MaxAttempts)

\* A call has been rejected after each of its MaxAttempts attempts met a
\* conflicting commit.
PublishTerminatesWitness ==
  \E c \in Calls :
    /\ pc[c] = "failed"
    /\ error[c] = "aborted"
    /\ attempts[c] = MaxAttempts

====
